---- MODULE Spec2Model ----
(***************************************************************************)
(* Model of the ENS assistant: the single-flight agent store               *)
(* (src/src/agentStore.ts), the agent construction and its entry points    *)
(* (src/src/chatbot.ts) and the paginated subgraph fetcher                 *)
(* (src/unnamed/part_000, imported by chatbot.ts as ./fetchgraph).         *)
(***************************************************************************)
EXTENDS Integers, Sequences, FiniteSets, TLC

(* ---------------------------- bounds ----------------------------------- *)
NumCallers == 2        \* concurrent callers of getAgent()
NumRunners == 1        \* callers of runAgentOnce()
MaxAttempts == 3       \* cap on initializeAgent() invocations in one run
MaxLedger == 240       \* largest number of recent registrations in the ledger
NumOld == 2            \* registrations older than every fetch window
StartMs == 10000000    \* Date.now() when the model starts
OldTs == 100           \* blockTimestamp (seconds) of the old registrations
RecentTs == 9000       \* blockTimestamp (seconds) of the recent registrations
TickMs == 1500         \* how far one step of the clock advances Date.now()
MaxTicks == 1          \* cap on the steps of the clock
MaxRegistered == 1  \* registrations appended to the ledger while the model runs
MaxRequests == 4    \* page requests the always-full data API answers in one session
MaxChunks == 2         \* cap on the chunks the agent streams yield in one run

Callers == 1..NumCallers
Runners == 1..NumRunners

NULL == 0              \* JavaScript null: no instance / no promise / no file

VARIABLES
  agentInstance,          \* agentStore.ts: the cached agent, NULL or an agent id
  initializationPromise,  \* agentStore.ts: the pending handle, NULL or a promise id
  attempts,               \* every invocation of initializeAgent(), in order
  callers,                \* the getAgent() callers and what each awaits / received
  runners,                \* the runAgentOnce() callers
  mainPc,                 \* position of the CLI main()
  walletFile,             \* content of WALLET_DATA_FILE: NULL or the attempt that wrote it
  walletWrites,           \* number of writes of WALLET_DATA_FILE
  chats,                  \* chat.ts: the request each getAgent() caller is serving
  now,                    \* Date.now(), in milliseconds
  ledger,                 \* the subgraph's nameRegistereds: blockTimestamp of record id i
  session,                \* the running fetchsubgraph / fetchRegistrationCount call
  requests,               \* the page requests the session has issued, in order
  tool                    \* the DynamicTool call that started the session, if any

agentVars == <<agentInstance, initializationPromise, attempts, callers,
               runners, mainPc, walletFile, walletWrites, chats>>

fetchVars == <<now, ledger, session, requests, tool>>

vars == <<agentVars, fetchVars>>

(* --------------------------- fetcher state ----------------------------- *)
First == 100           \* `first: 100` of baseQuery and slimQuery
FullPage == 100        \* `nameRegistereds.length < 100`
SkipStep == 100        \* `skip += 100`

NoReturn == [kind |-> "none", list |-> <<>>, num |-> 0]

NoSession ==
  [pc |-> "idle", mode |-> "none", hours |-> 0, targetTimestamp |-> 0, skip |-> 0,
   results |-> <<>>, count |-> 0, hasMore |-> FALSE, ret |-> NoReturn]

NoOutput == [type |-> "none", json |-> NoReturn]

NoTool == [pc |-> "idle", name |-> "none", input |-> <<>>, out |-> NoOutput]

(* ------------------------- agent construction -------------------------- *)
\* An attempt is one invocation of initializeAgent().  The agent it creates is
\* identified by the attempt's index; for an attempt started by getAgent() the
\* field promise is the state of the promise stored in initializationPromise.
NewAttempt(origin) ==
  [origin |-> origin, init |-> "running",
   promise |-> IF origin = "getAgent" THEN "pending" ELSE "none"]

IdleCaller == [pc |-> "idle", awaits |-> NULL, value |-> NULL]

\* a chat request that has not arrived: no response status, no stream
NoChat ==
  [pc |-> "idle", method |-> "none", status |-> 0, stream |-> FALSE,
   chunks |-> <<>>, raised |-> FALSE, events |-> <<>>, closed |-> 0]

AgentInit ==
  /\ agentInstance = NULL
  /\ initializationPromise = NULL
  /\ attempts = <<>>
  /\ callers = [c \in Callers |-> IdleCaller]
  /\ runners = [r \in Runners |-> [pc |-> "idle", attempt |-> NULL]]
  /\ mainPc \in {"none", "ready"}
  /\ walletFile = NULL
  /\ walletWrites = 0
  /\ chats = [c \in Callers |-> NoChat]
  /\ now = StartMs
  /\ ledger = <<>>
  /\ session = NoSession
  /\ requests = <<>>
  /\ tool = NoTool

Running == mainPc # "exited"

\* getAgent() without the check of the pending handle: every call made while
\* nothing is cached starts a construction of its own
getAgentNoJoin(c) ==
  /\ Running
  /\ callers[c].pc # "awaiting"
  /\ IF agentInstance # NULL
       THEN /\ callers' = [callers EXCEPT ![c] =
                 [pc |-> "awaiting", awaits |-> NULL, value |-> agentInstance]]
            /\ UNCHANGED <<initializationPromise, attempts>>
       ELSE /\ Len(attempts) < MaxAttempts
            /\ attempts' = Append(attempts, NewAttempt("getAgent"))
            /\ initializationPromise' = Len(attempts) + 1
            /\ callers' = [callers EXCEPT ![c] =
                 [pc |-> "awaiting", awaits |-> Len(attempts) + 1, value |-> NULL]]
  /\ UNCHANGED <<agentInstance, runners, mainPc, walletFile, walletWrites, fetchVars>>

\* getAgent(), from the call to the promise it hands back (agentStore.ts 8-32)
getAgent(c) ==
  /\ Running
  /\ callers[c].pc # "awaiting"
  /\ IF agentInstance # NULL
       THEN /\ callers' = [callers EXCEPT ![c] =
                 [pc |-> "awaiting", awaits |-> NULL, value |-> agentInstance]]
            /\ UNCHANGED <<initializationPromise, attempts>>
       ELSE IF initializationPromise # NULL
         THEN /\ callers' = [callers EXCEPT ![c] =
                   [pc |-> "awaiting", awaits |-> initializationPromise, value |-> NULL]]
              /\ UNCHANGED <<initializationPromise, attempts>>
         ELSE /\ Len(attempts) < MaxAttempts
              /\ attempts' = Append(attempts, NewAttempt("getAgent"))
              /\ initializationPromise' = Len(attempts) + 1
              /\ callers' = [callers EXCEPT ![c] =
                   [pc |-> "awaiting", awaits |-> Len(attempts) + 1, value |-> NULL]]
  /\ UNCHANGED <<agentInstance, runners, mainPc, walletFile, walletWrites, fetchVars>>

\* initializeAgent() runs to its end: the wallet is exported and written to
\* WALLET_DATA_FILE, and { agent, config } is returned (chatbot.ts 86-222)
initializeAgentReturn(a) ==
  /\ Running
  /\ attempts[a].init = "running"
  /\ attempts' = [attempts EXCEPT ![a].init = "resolved"]
  /\ walletFile' = a
  /\ walletWrites' = walletWrites + 1
  /\ UNCHANGED <<agentInstance, initializationPromise, callers, runners, mainPc,
                 fetchVars>>

\* initializeAgent() fails at one of its awaits: logged and re-thrown, the
\* wallet file is not written (chatbot.ts 223-226)
initializeAgentThrow(a) ==
  /\ Running
  /\ attempts[a].init = "running"
  /\ attempts' = [attempts EXCEPT ![a].init = "rejected"]
  /\ UNCHANGED <<agentInstance, initializationPromise, callers, runners, mainPc,
                 walletFile, walletWrites, fetchVars>>

\* getAgent()'s continuation without the reset in the catch block: the failed
\* promise stays in initializationPromise
getAgentResumeNoReset(a) ==
  /\ Running
  /\ attempts[a].origin = "getAgent"
  /\ attempts[a].promise = "pending"
  /\ attempts[a].init # "running"
  /\ IF attempts[a].init = "resolved"
       THEN /\ agentInstance' = a
            /\ attempts' = [attempts EXCEPT ![a].promise = "fulfilled"]
       ELSE /\ attempts' = [attempts EXCEPT ![a].promise = "rejected"]
            /\ UNCHANGED agentInstance
  /\ UNCHANGED <<initializationPromise, callers, runners, mainPc, walletFile, walletWrites, fetchVars>>

\* getAgent()'s continuation that hands the agent back without caching it and
\* clears the handle on success as it does on failure
getAgentResumeNoCache(a) ==
  /\ Running
  /\ attempts[a].origin = "getAgent"
  /\ attempts[a].promise = "pending"
  /\ attempts[a].init # "running"
  /\ initializationPromise' = NULL
  /\ attempts' = [attempts EXCEPT ![a].promise =
       IF attempts[a].init = "resolved" THEN "fulfilled" ELSE "rejected"]
  /\ UNCHANGED <<agentInstance, callers, runners, mainPc, walletFile, walletWrites, fetchVars>>

\* the continuation of getAgent()'s async block after `await initializeAgent()`
\* (agentStore.ts 20-28)
getAgentResume(a) ==
  /\ Running
  /\ attempts[a].origin = "getAgent"
  /\ attempts[a].promise = "pending"
  /\ attempts[a].init # "running"
  /\ IF attempts[a].init = "resolved"
       THEN /\ agentInstance' = a
            /\ attempts' = [attempts EXCEPT ![a].promise = "fulfilled"]
            /\ UNCHANGED initializationPromise
       ELSE /\ initializationPromise' = NULL
            /\ attempts' = [attempts EXCEPT ![a].promise = "rejected"]
            /\ UNCHANGED agentInstance
  /\ UNCHANGED <<callers, runners, mainPc, walletFile, walletWrites, fetchVars>>

\* a caller's `await getAgent()` completes: with the cached instance, or with
\* the outcome of the promise it was handed (chat.ts 12)
callerResume(c) ==
  /\ Running
  /\ callers[c].pc = "awaiting"
  /\ IF callers[c].awaits = NULL
       THEN callers' = [callers EXCEPT ![c].pc = "returned"]
       ELSE /\ attempts[callers[c].awaits].promise \in {"fulfilled", "rejected"}
            /\ callers' = [callers EXCEPT ![c] =
                 IF attempts[callers[c].awaits].promise = "fulfilled"
                   THEN [pc |-> "returned", awaits |-> @.awaits, value |-> @.awaits]
                   ELSE [pc |-> "threw", awaits |-> @.awaits, value |-> NULL]]
  /\ UNCHANGED <<agentInstance, initializationPromise, attempts, runners, mainPc,
                 walletFile, walletWrites, fetchVars>>

\* runAgentOnce(prompt) is called: it constructs its own agent (chatbot.ts 388-390)
runAgentOnce(r) ==
  /\ Running
  /\ runners[r].pc = "idle"
  /\ Len(attempts) < MaxAttempts
  /\ attempts' = Append(attempts, NewAttempt("runAgentOnce"))
  /\ runners' = [runners EXCEPT ![r] = [pc |-> "awaiting", attempt |-> Len(attempts) + 1]]
  /\ UNCHANGED <<agentInstance, initializationPromise, callers, mainPc,
                 walletFile, walletWrites, fetchVars>>

\* runAgentOnce() after `await initializeAgent()`: streams the agent's answer and
\* returns it, or logs and re-throws (chatbot.ts 391-404)
runAgentOnceResume(r) ==
  /\ Running
  /\ runners[r].pc = "awaiting"
  /\ attempts[runners[r].attempt].init # "running"
  /\ \E streamOk \in BOOLEAN :
       runners' = [runners EXCEPT ![r].pc =
         IF attempts[runners[r].attempt].init = "resolved" /\ streamOk
           THEN "returned" ELSE "threw"]
  /\ UNCHANGED <<agentInstance, initializationPromise, attempts, callers, mainPc,
                 walletFile, walletWrites, fetchVars>>

\* the CLI main() starts when chatbot.ts is the main module, before anything
\* else has run (chatbot.ts 347-349, 367-369)
main ==
  /\ mainPc = "ready"
  /\ attempts = <<>>
  /\ attempts' = Append(attempts, NewAttempt("main"))
  /\ mainPc' = "awaiting"
  /\ UNCHANGED <<agentInstance, initializationPromise, callers, runners,
                 walletFile, walletWrites, fetchVars>>

\* main() after `await initializeAgent()`: goes on to the mode loop, or reports
\* the fatal error and exits the process (chatbot.ts 350-364)
mainResume ==
  /\ mainPc = "awaiting"
  /\ attempts[1].init # "running"
  /\ mainPc' = IF attempts[1].init = "resolved" THEN "mode" ELSE "exited"
  /\ UNCHANGED <<agentInstance, initializationPromise, attempts, callers, runners,
                 walletFile, walletWrites, fetchVars>>

AgentNext ==
  \/ \E c \in Callers : getAgent(c) /\ UNCHANGED chats
  \/ \E a \in DOMAIN attempts : initializeAgentReturn(a) /\ UNCHANGED chats
  \/ \E a \in DOMAIN attempts : initializeAgentThrow(a) /\ UNCHANGED chats
  \/ \E a \in DOMAIN attempts : getAgentResume(a) /\ UNCHANGED chats
  \/ \E c \in Callers : callerResume(c) /\ UNCHANGED chats
  \/ \E r \in Runners : runAgentOnce(r) /\ UNCHANGED chats
  \/ \E r \in Runners : runAgentOnceResume(r) /\ UNCHANGED chats
  \/ main /\ UNCHANGED chats
  \/ mainResume /\ UNCHANGED chats

AgentSpec == AgentInit /\ [][AgentNext]_vars

\* The agent store on its own, in a process where chatbot.ts is not the main
\* module and nobody calls runAgentOnce(): getAgent() and the steps it awaits.
\* Every awaiter of a settled promise is resumed by the JavaScript job queue.
StoreInit == AgentInit /\ mainPc = "none"

StoreNext ==
  \/ \E c \in Callers : getAgent(c) /\ UNCHANGED chats
  \/ \E a \in DOMAIN attempts : initializeAgentReturn(a) /\ UNCHANGED chats
  \/ \E a \in DOMAIN attempts : initializeAgentThrow(a) /\ UNCHANGED chats
  \/ \E a \in DOMAIN attempts : getAgentResume(a) /\ UNCHANGED chats
  \/ \E c \in Callers : callerResume(c) /\ UNCHANGED chats

StoreFairSpec ==
  /\ StoreInit /\ [][StoreNext]_vars
  /\ \A c \in Callers : WF_vars(callerResume(c) /\ UNCHANGED chats)

(* ---------------------------- chat handler ---------------------------- *)
Methods == {"POST", "GET"}

\* The chunks an agent stream yields: { agent: { messages: [{ content }] } },
\* { tools: { messages: [{ content }] } }, or a chunk with neither key
Chunks ==
  {[key |-> "agent", content |-> "a"], [key |-> "tools", content |-> "b"],
   [key |-> "agent", content |-> ""], [key |-> "other", content |-> "c"]}

\* the content the loop body extracts from a chunk (chat.ts 27-32)
ContentOf(chunk) ==
  IF chunk.key = "agent" THEN chunk.content
  ELSE IF chunk.key = "tools" THEN chunk.content
  ELSE ""

\* `data: ${JSON.stringify({ content })}\n\n` (chat.ts 37)
ContentEvent(content) == <<"data: ", [content |-> content], "\n\n">>

\* `data: ${JSON.stringify({ error: 'Processing error' })}\n\n` (chat.ts 44)
ErrorEvent == <<"data: ", [error |-> "Processing error"], "\n\n">>

ChunksYielded ==
  LET RECURSIVE Sum(_)
      Sum(S) == IF S = {} THEN 0
                ELSE LET c == CHOOSE x \in S : TRUE
                     IN  Len(chats[c].chunks) + Sum(S \ {c})
  IN  Sum(Callers)

\* The job queue is empty: no continuation of getAgent() or of a caller of it
\* is ready to run.  The JavaScript runtime runs every ready continuation
\* before it delivers the next request to the handler.
Quiescent ==
  /\ \A a \in DOMAIN attempts :
       ~(attempts[a].origin = "getAgent" /\ attempts[a].promise = "pending"
           /\ attempts[a].init # "running")
  /\ \A c \in Callers :
       callers[c].pc = "awaiting" =>
         /\ callers[c].awaits # NULL
         /\ attempts[callers[c].awaits].promise = "pending"

storeVars == <<agentInstance, initializationPromise, attempts, callers,
               runners, mainPc, walletFile, walletWrites>>

\* the handler without its method check: every request is treated as a POST
handlerAnyMethod(c, method) ==
  /\ chats[c].pc = "idle"
  /\ chats' = [chats EXCEPT ![c] = [@ EXCEPT !.pc = "json", !.method = method]]
  /\ UNCHANGED <<storeVars, fetchVars>>

\* a request arrives: anything but POST is answered 405 (chat.ts 5-10)
handler(c, method) ==
  /\ chats[c].pc = "idle"
  /\ chats' = [chats EXCEPT ![c] =
       IF method # "POST"
         THEN [@ EXCEPT !.pc = "done", !.method = method, !.status = 405]
         ELSE [@ EXCEPT !.pc = "json", !.method = method]]
  /\ UNCHANGED <<storeVars, fetchVars>>

\* `await req.json()` rejects: the outer catch answers 500 (chat.ts 11, 58-62)
handlerBodyUnreadable(c) ==
  /\ chats[c].pc = "json"
  /\ chats' = [chats EXCEPT ![c] = [@ EXCEPT !.pc = "done", !.status = 500]]
  /\ UNCHANGED <<storeVars, fetchVars>>

\* `await req.json()` gives the prompt and getAgent() is called (chat.ts 11-12)
handlerGetAgent(c) ==
  /\ chats[c].pc = "json"
  /\ Quiescent
  /\ getAgent(c)
  /\ chats' = [chats EXCEPT ![c].pc = "agent"]

\* `await getAgent()` completes.  With an agent: the stream is set up, the
\* background block starts and awaits agent.stream(), and the event-stream
\* response is returned.  With a failure: the outer catch answers 500
\* (chat.ts 12-24, 51-62)
handlerAgent(c) ==
  /\ chats[c].pc = "agent"
  /\ callerResume(c)
  /\ chats' = [chats EXCEPT ![c] =
       IF callers'[c].pc = "returned"
         THEN [@ EXCEPT !.pc = "starting", !.status = 200, !.stream = TRUE]
         ELSE [@ EXCEPT !.pc = "done", !.status = 500]]

\* `await agent.stream(...)` gives the chunk iterator (chat.ts 22-26)
streamStart(c) ==
  /\ chats[c].pc = "starting"
  /\ chats' = [chats EXCEPT ![c].pc = "streaming"]
  /\ UNCHANGED <<storeVars, fetchVars>>

\* the catch block without the finally block: the error event is written and
\* the writer is left open
streamThrowNoClose(c) ==
  /\ chats[c].pc \in {"starting", "streaming"}
  /\ chats' = [chats EXCEPT ![c] =
       [@ EXCEPT !.pc = "done", !.raised = TRUE, !.events = Append(@, ErrorEvent)]]
  /\ UNCHANGED <<storeVars, fetchVars>>

\* the agent stream fails, at agent.stream() or at the next chunk: the error
\* event is written and the writer is closed (chat.ts 41-48)
streamThrow(c) ==
  /\ chats[c].pc \in {"starting", "streaming"}
  /\ chats' = [chats EXCEPT ![c] =
       [@ EXCEPT !.pc = "done", !.raised = TRUE, !.events = Append(@, ErrorEvent),
                 !.closed = @ + 1]]
  /\ UNCHANGED <<storeVars, fetchVars>>

\* the loop body without `if (content)`: every chunk is written as an event
streamChunkAlways(c, chunk) ==
  /\ chats[c].pc = "streaming"
  /\ ChunksYielded < MaxChunks
  /\ chats' = [chats EXCEPT ![c] =
       [@ EXCEPT !.chunks = Append(@, chunk),
                 !.events = Append(@, ContentEvent(ContentOf(chunk)))]]
  /\ UNCHANGED <<storeVars, fetchVars>>

\* the agent stream yields a chunk: its content, when not empty, is written
\* as one event (chat.ts 26-40)
streamChunk(c, chunk) ==
  /\ chats[c].pc = "streaming"
  /\ ChunksYielded < MaxChunks
  /\ LET content == ContentOf(chunk)
     IN  chats' = [chats EXCEPT ![c] =
           [@ EXCEPT !.chunks = Append(@, chunk),
                     !.events = IF content # "" THEN Append(@, ContentEvent(content))
                                ELSE @]]
  /\ UNCHANGED <<storeVars, fetchVars>>

\* the agent stream ends: the writer is closed (chat.ts 40, 46-48)
streamEnd(c) ==
  /\ chats[c].pc = "streaming"
  /\ chats' = [chats EXCEPT ![c] = [@ EXCEPT !.pc = "done", !.closed = @ + 1]]
  /\ UNCHANGED <<storeVars, fetchVars>>

ChatNext ==
  \/ \E c \in Callers, method \in Methods : handler(c, method)
  \/ \E c \in Callers : handlerBodyUnreadable(c)
  \/ \E c \in Callers : handlerGetAgent(c)
  \/ \E a \in DOMAIN attempts : initializeAgentReturn(a) /\ UNCHANGED chats
  \/ \E a \in DOMAIN attempts : initializeAgentThrow(a) /\ UNCHANGED chats
  \/ \E a \in DOMAIN attempts : getAgentResume(a) /\ UNCHANGED chats
  \/ \E c \in Callers : handlerAgent(c)
  \/ \E c \in Callers : streamStart(c)
  \/ \E c \in Callers : streamThrow(c)
  \/ \E c \in Callers, chunk \in Chunks : streamChunk(c, chunk)
  \/ \E c \in Callers : streamEnd(c)

ChatSpec == StoreInit /\ [][ChatNext]_vars

(* ------------------------------ fetcher -------------------------------- *)
\* The inputs the agent passes to the tools, as sequences of characters
ToolInputs ==
  {<<"1">>, <<"3">>, <<"0">>, <<"-", "1">>, <<"x">>, <<" ", "2", "h">>}

DigitValue ==
  [ch \in {"0", "1", "2", "3", "4", "5", "6", "7", "8", "9"} |->
     CASE ch = "0" -> 0 [] ch = "1" -> 1 [] ch = "2" -> 2 [] ch = "3" -> 3
       [] ch = "4" -> 4 [] ch = "5" -> 5 [] ch = "6" -> 6 [] ch = "7" -> 7
       [] ch = "8" -> 8 [] ch = "9" -> 9]

NaN == [nan |-> TRUE, val |-> 0]

RECURSIVE TrimStart(_)
TrimStart(str) ==
  IF str # <<>> /\ Head(str) = " " THEN TrimStart(Tail(str)) ELSE str

\* the value of the longest prefix of decimal digits of str, after acc
RECURSIVE ParseDigits(_, _)
ParseDigits(str, acc) ==
  IF str # <<>> /\ Head(str) \in DOMAIN DigitValue
    THEN ParseDigits(Tail(str), 10 * acc + DigitValue[Head(str)])
    ELSE acc

\* parseInt(input, 10): leading blanks are skipped, a sign is read, then the
\* longest run of digits; NaN when there is no digit
parseInt(input) ==
  LET str == TrimStart(input)
      signed == str # <<>> /\ Head(str) \in {"-", "+"}
      body == IF signed THEN Tail(str) ELSE str
  IN  IF body = <<>> \/ Head(body) \notin DOMAIN DigitValue
        THEN NaN
        ELSE [nan |-> FALSE,
              val |-> IF signed /\ Head(str) = "-"
                        THEN 0 - ParseDigits(body, 0) ELSE ParseDigits(body, 0)]

isNaN(n) == n.nan

\* the ids of the ledger in the order `orderBy: blockNumber, orderDirection: desc`
DescIds == [i \in 1..Len(ledger) |-> Len(ledger) + 1 - i]

\* nameRegistereds(where: {blockTimestamp_gte}, orderBy, orderDirection, first, skip)
Selected(targetTimestamp, skip) ==
  LET matching == SelectSeq(DescIds, LAMBDA id : ledger[id] >= targetTimestamp)
      last == IF skip + First < Len(matching) THEN skip + First ELSE Len(matching)
  IN  SubSeq(matching, skip + 1, last)

\* baseQuery: the selected records with all their fields
baseQuery(targetTimestamp, skip) ==
  LET ids == Selected(targetTimestamp, skip)
  IN  [i \in 1..Len(ids) |->
        [id |-> ids[i], blockNumber |-> ids[i], blockTimestamp |-> ledger[ids[i]]]]

\* slimQuery: the selected records with their id alone
slimQuery(targetTimestamp, skip) ==
  LET ids == Selected(targetTimestamp, skip)
  IN  [i \in 1..Len(ids) |-> [id |-> ids[i]]]

Request(targetTimestamp, skip) ==
  [targetTimestamp |-> targetTimestamp, skip |-> skip, status |-> "pending", page |-> <<>>]

LastRequest == requests[Len(requests)]

\* fetchsubgraph(hours) from the call to its first `await request(...)`
\* (part_000 45-61)
fetchsubgraph(hours) ==
  LET timePeriod == hours * 60 * 60 * 1000
      targetTimestamp == (now - timePeriod) \div 1000
  IN  /\ session' = [pc |-> "awaiting", mode |-> "collect", hours |-> hours,
                     targetTimestamp |-> targetTimestamp, skip |-> 0,
                     results |-> <<>>, count |-> 0, hasMore |-> TRUE, ret |-> NoReturn]
      /\ requests' = <<Request(targetTimestamp, 0)>>

\* fetchRegistrationCount(hours) from the call to its first `await request(...)`
\* (part_000 87-103)
fetchRegistrationCount(hours) ==
  LET timePeriod == hours * 60 * 60 * 1000
      targetTimestamp == (now - timePeriod) \div 1000
  IN  /\ session' = [pc |-> "awaiting", mode |-> "count", hours |-> hours,
                     targetTimestamp |-> targetTimestamp, skip |-> 0,
                     results |-> <<>>, count |-> 0, hasMore |-> TRUE, ret |-> NoReturn]
      /\ requests' = <<Request(targetTimestamp, 0)>>

\* the fetchsubgraph tool is invoked with a string (chatbot.ts 145-150)
fetchsubgraphTool(input) ==
  /\ tool.pc = "idle"
  /\ LET hours == parseInt(input)
     IN  IF isNaN(hours)
           THEN /\ tool' = [pc |-> "threw", name |-> "fetchsubgraph", input |-> input,
                            out |-> NoOutput]
                /\ UNCHANGED <<session, requests>>
           ELSE /\ tool' = [pc |-> "awaiting", name |-> "fetchsubgraph", input |-> input,
                            out |-> NoOutput]
                /\ fetchsubgraph(hours.val)
  /\ UNCHANGED <<agentVars, now, ledger>>

\* the fetchRegistrationCount tool is invoked with a string (chatbot.ts 158-163)
fetchRegistrationCountTool(input) ==
  /\ tool.pc = "idle"
  /\ LET hours == parseInt(input)
     IN  IF isNaN(hours)
           THEN /\ tool' = [pc |-> "threw", name |-> "fetchRegistrationCount",
                            input |-> input, out |-> NoOutput]
                /\ UNCHANGED <<session, requests>>
           ELSE /\ tool' = [pc |-> "awaiting", name |-> "fetchRegistrationCount",
                            input |-> input, out |-> NoOutput]
                /\ fetchRegistrationCount(hours.val)
  /\ UNCHANGED <<agentVars, now, ledger>>

\* the data API answers the request in flight against the ledger as it is now
apiRespond ==
  /\ session.pc = "awaiting"
  /\ LastRequest.status = "pending"
  /\ requests' = [requests EXCEPT ![Len(requests)] =
       [@ EXCEPT !.status = "answered",
                 !.page = IF session.mode = "collect"
                            THEN baseQuery(LastRequest.targetTimestamp, LastRequest.skip)
                            ELSE slimQuery(LastRequest.targetTimestamp, LastRequest.skip)]]
  /\ UNCHANGED <<agentVars, now, ledger, session, tool>>

\* the request in flight fails: transport error, or a response that cannot be read
apiFail ==
  /\ session.pc = "awaiting"
  /\ LastRequest.status = "pending"
  /\ requests' = [requests EXCEPT ![Len(requests)].status = "failed"]
  /\ UNCHANGED <<agentVars, now, ledger, session, tool>>

\* fetchsubgraph()'s loop stopping on an empty page instead of a short one: it
\* asks for one more page after a short page that is not empty
fetchsubgraphResumeStopOnEmpty ==
  /\ session.pc = "awaiting"
  /\ session.mode = "collect"
  /\ LastRequest.status # "pending"
  /\ IF LastRequest.status = "answered"
       THEN LET nameRegistereds == LastRequest.page
                results == session.results \o nameRegistereds
            IN  IF Len(nameRegistereds) = 0
                  THEN /\ session' = [session EXCEPT
                            !.results = results, !.hasMore = FALSE, !.pc = "returned",
                            !.ret = [kind |-> "array", list |-> results, num |-> 0]]
                       /\ UNCHANGED requests
                  ELSE /\ session' = [session EXCEPT
                            !.results = results, !.skip = @ + SkipStep]
                       /\ requests' = Append(requests,
                            Request(session.targetTimestamp, session.skip + SkipStep))
       ELSE /\ session' = [session EXCEPT
                 !.pc = "returned",
                 !.ret = [kind |-> "undefined", list |-> <<>>, num |-> 0]]
            /\ UNCHANGED requests
  /\ UNCHANGED <<agentVars, now, ledger, tool>>

\* fetchsubgraph() with a catch block that asks for the failed page again
fetchsubgraphResumeRetry ==
  /\ session.pc = "awaiting"
  /\ session.mode = "collect"
  /\ LastRequest.status # "pending"
  /\ IF LastRequest.status = "answered"
       THEN LET nameRegistereds == LastRequest.page
                results == session.results \o nameRegistereds
            IN  IF Len(nameRegistereds) < FullPage
                  THEN /\ session' = [session EXCEPT
                            !.results = results, !.hasMore = FALSE, !.pc = "returned",
                            !.ret = [kind |-> "array", list |-> results, num |-> 0]]
                       /\ UNCHANGED requests
                  ELSE /\ session' = [session EXCEPT
                            !.results = results, !.skip = @ + SkipStep]
                       /\ requests' = Append(requests,
                            Request(session.targetTimestamp, session.skip + SkipStep))
       ELSE /\ Len(requests) < 4
            /\ requests' = Append(requests,
                 Request(session.targetTimestamp, session.skip))
            /\ UNCHANGED session
  /\ UNCHANGED <<agentVars, now, ledger, tool>>

\* fetchsubgraph() computing targetTimestamp again, from the clock of the
\* moment, for every page it goes on to request
fetchsubgraphResumeRecompute ==
  /\ session.pc = "awaiting"
  /\ session.mode = "collect"
  /\ LastRequest.status # "pending"
  /\ IF LastRequest.status = "answered"
       THEN LET nameRegistereds == LastRequest.page
                results == session.results \o nameRegistereds
                targetTimestamp == (now - session.hours * 60 * 60 * 1000) \div 1000
            IN  IF Len(nameRegistereds) < FullPage
                  THEN /\ session' = [session EXCEPT
                            !.results = results, !.hasMore = FALSE, !.pc = "returned",
                            !.ret = [kind |-> "array", list |-> results, num |-> 0]]
                       /\ UNCHANGED requests
                  ELSE /\ session' = [session EXCEPT
                            !.results = results, !.skip = @ + SkipStep,
                            !.targetTimestamp = targetTimestamp]
                       /\ requests' = Append(requests,
                            Request(targetTimestamp, session.skip + SkipStep))
       ELSE /\ session' = [session EXCEPT
                 !.pc = "returned",
                 !.ret = [kind |-> "undefined", list |-> <<>>, num |-> 0]]
            /\ UNCHANGED requests
  /\ UNCHANGED <<agentVars, now, ledger, tool>>

\* fetchsubgraph() after `await request(...)`: one turn of the loop, then the
\* next request or the return; a failure lands in the catch block, which logs
\* it and falls off the end of the function (part_000 61-83)
fetchsubgraphResume ==
  /\ session.pc = "awaiting"
  /\ session.mode = "collect"
  /\ LastRequest.status # "pending"
  /\ IF LastRequest.status = "answered"
       THEN LET nameRegistereds == LastRequest.page
                results == session.results \o nameRegistereds
            IN  IF Len(nameRegistereds) < FullPage
                  THEN /\ session' = [session EXCEPT
                            !.results = results, !.hasMore = FALSE, !.pc = "returned",
                            !.ret = [kind |-> "array", list |-> results, num |-> 0]]
                       /\ UNCHANGED requests
                  ELSE /\ session' = [session EXCEPT
                            !.results = results, !.skip = @ + SkipStep]
                       /\ requests' = Append(requests,
                            Request(session.targetTimestamp, session.skip + SkipStep))
       ELSE /\ session' = [session EXCEPT
                 !.pc = "returned",
                 !.ret = [kind |-> "undefined", list |-> <<>>, num |-> 0]]
            /\ UNCHANGED requests
  /\ UNCHANGED <<agentVars, now, ledger, tool>>

\* fetchRegistrationCount() adding a page to the count only when it goes on to
\* the next page: the last, short page is not counted
fetchRegistrationCountResumeDropLast ==
  /\ session.pc = "awaiting"
  /\ session.mode = "count"
  /\ LastRequest.status # "pending"
  /\ IF LastRequest.status = "answered"
       THEN LET nameRegistereds == LastRequest.page
                count == session.count + Len(nameRegistereds)
            IN  IF Len(nameRegistereds) < FullPage
                  THEN /\ session' = [session EXCEPT
                            !.hasMore = FALSE, !.pc = "returned",
                            !.ret = [kind |-> "number", list |-> <<>>,
                                     num |-> session.count]]
                       /\ UNCHANGED requests
                  ELSE /\ session' = [session EXCEPT
                            !.count = count, !.skip = @ + SkipStep]
                       /\ requests' = Append(requests,
                            Request(session.targetTimestamp, session.skip + SkipStep))
       ELSE /\ session' = [session EXCEPT
                 !.pc = "returned",
                 !.ret = [kind |-> "number", list |-> <<>>, num |-> 0]]
            /\ UNCHANGED requests
  /\ UNCHANGED <<agentVars, now, ledger, tool>>

\* fetchRegistrationCount() with a catch block that returns what was counted so far
fetchRegistrationCountResumePartial ==
  /\ session.pc = "awaiting"
  /\ session.mode = "count"
  /\ LastRequest.status # "pending"
  /\ IF LastRequest.status = "answered"
       THEN LET nameRegistereds == LastRequest.page
                count == session.count + Len(nameRegistereds)
            IN  IF Len(nameRegistereds) < FullPage
                  THEN /\ session' = [session EXCEPT
                            !.count = count, !.hasMore = FALSE, !.pc = "returned",
                            !.ret = [kind |-> "number", list |-> <<>>, num |-> count]]
                       /\ UNCHANGED requests
                  ELSE /\ session' = [session EXCEPT
                            !.count = count, !.skip = @ + SkipStep]
                       /\ requests' = Append(requests,
                            Request(session.targetTimestamp, session.skip + SkipStep))
       ELSE /\ session' = [session EXCEPT
                 !.pc = "returned",
                 !.ret = [kind |-> "number", list |-> <<>>, num |-> session.count]]
            /\ UNCHANGED requests
  /\ UNCHANGED <<agentVars, now, ledger, tool>>

\* fetchRegistrationCount() after `await request(...)`: one turn of the loop,
\* then the next request or the return; a failure lands in the catch block,
\* which logs it and returns 0 (part_000 103-121)
fetchRegistrationCountResume ==
  /\ session.pc = "awaiting"
  /\ session.mode = "count"
  /\ LastRequest.status # "pending"
  /\ IF LastRequest.status = "answered"
       THEN LET nameRegistereds == LastRequest.page
                count == session.count + Len(nameRegistereds)
            IN  IF Len(nameRegistereds) < FullPage
                  THEN /\ session' = [session EXCEPT
                            !.count = count, !.hasMore = FALSE, !.pc = "returned",
                            !.ret = [kind |-> "number", list |-> <<>>, num |-> count]]
                       /\ UNCHANGED requests
                  ELSE /\ session' = [session EXCEPT
                            !.count = count, !.skip = @ + SkipStep]
                       /\ requests' = Append(requests,
                            Request(session.targetTimestamp, session.skip + SkipStep))
       ELSE /\ session' = [session EXCEPT
                 !.pc = "returned",
                 !.ret = [kind |-> "number", list |-> <<>>, num |-> 0]]
            /\ UNCHANGED requests
  /\ UNCHANGED <<agentVars, now, ledger, tool>>

\* JSON.stringify(result): a string for an array or a number, undefined for undefined
JSONstringify(result) ==
  IF result.kind = "undefined"
    THEN [type |-> "undefined", json |-> NoReturn]
    ELSE [type |-> "string", json |-> result]

\* the tool after `await fetchsubgraph(hours)` / `await fetchRegistrationCount(hours)`:
\* it returns the serialized result, or fails as the fetcher failed
\* (chatbot.ts 150-151, 163-164)
toolResume ==
  /\ tool.pc = "awaiting"
  /\ session.pc \in {"returned", "threw"}
  /\ tool' = IF session.pc = "returned"
               THEN [tool EXCEPT !.pc = "returned", !.out = JSONstringify(session.ret)]
               ELSE [tool EXCEPT !.pc = "threw"]
  /\ UNCHANGED <<agentVars, now, ledger, session, requests>>

\* time passes
tick ==
  /\ now < StartMs + MaxTicks * TickMs
  /\ now' = now + TickMs
  /\ UNCHANGED <<agentVars, ledger, session, requests, tool>>

\* the ledger when the model starts: NumOld old registrations, then n recent ones
InitialLedger(n) ==
  [i \in 1..(NumOld + n) |-> IF i <= NumOld THEN OldTs ELSE RecentTs]

FetchInit ==
  /\ agentInstance = NULL
  /\ initializationPromise = NULL
  /\ attempts = <<>>
  /\ callers = [c \in Callers |-> IdleCaller]
  /\ runners = [r \in Runners |-> [pc |-> "idle", attempt |-> NULL]]
  /\ mainPc = "none"
  /\ walletFile = NULL
  /\ walletWrites = 0
  /\ chats = [c \in Callers |-> NoChat]
  /\ now = StartMs
  /\ ledger \in {InitialLedger(n) : n \in 0..MaxLedger}
  /\ session = NoSession
  /\ requests = <<>>
  /\ tool = NoTool

FetchNext ==
  \/ \E input \in ToolInputs : fetchsubgraphTool(input)
  \/ \E input \in ToolInputs : fetchRegistrationCountTool(input)
  \/ apiRespond
  \/ apiFail
  \/ fetchsubgraphResume
  \/ fetchRegistrationCountResume
  \/ toolResume
  \/ tick

FetchSpec == FetchInit /\ [][FetchNext]_vars

(* --------------------- claims about the agent store -------------------- *)
\* the construction attempts started by getAgent() whose promise is unsettled
InFlight ==
  {a \in DOMAIN attempts :
     attempts[a].origin = "getAgent" /\ attempts[a].promise = "pending"}

\* caller c makes a getAgent() call in this step
CallStep(c) == callers[c].pc # "awaiting" /\ callers'[c].pc = "awaiting"

\* C1 -- single-flight: at most one construction started by getAgent() is in
\* flight at any time; every caller waiting for an unsettled construction waits
\* for that one (so N calls made before it resolves cause one invocation of
\* initializeAgent()); and every caller that got an instance got the one cached
\* instance, so callers of the same attempt got the same instance.
C1_SingleFlight ==
  /\ Cardinality(InFlight) <= 1
  /\ \A c \in Callers :
       (callers[c].pc = "awaiting" /\ callers[c].awaits \in InFlight)
         => callers[c].awaits = initializationPromise
  /\ \A c \in Callers :
       callers[c].pc = "returned"
         => callers[c].value = agentInstance /\ agentInstance # NULL
  /\ \A c, d \in Callers :
       (callers[c].pc = "returned" /\ callers[d].pc = "returned"
          /\ callers[c].awaits = callers[d].awaits)
         => callers[c].value = callers[d].value

\* two callers joined the same construction and both received its instance
C1_Witness ==
  \E c, d \in Callers :
    /\ c # d
    /\ callers[c].pc = "returned" /\ callers[d].pc = "returned"
    /\ callers[c].awaits # NULL /\ callers[c].awaits = callers[d].awaits
    /\ callers[c].value = callers[d].value

\* C2 -- a failed construction resets the store to Uninitialized at the moment
\* its promise is rejected, every caller awaiting that promise receives the
\* failure (never an instance, never another attempt's outcome), and none of
\* them stays pending for ever while the process runs.
C2_FailureReachesAllWaiters ==
  /\ [][/\ \A a \in DOMAIN attempts :
              (attempts[a].promise = "pending" /\ attempts'[a].promise = "rejected")
                => agentInstance' = NULL /\ initializationPromise' = NULL
        /\ \A c \in Callers :
              (callers[c].pc = "awaiting" /\ callers[c].awaits # NULL
                 /\ attempts[callers[c].awaits].promise = "rejected")
                => \/ callers'[c] = callers[c]
                   \/ callers'[c] = [pc |-> "threw", awaits |-> callers[c].awaits,
                                     value |-> NULL]]_vars
  /\ \A c \in Callers :
       (callers[c].pc = "awaiting" /\ callers[c].awaits # NULL
          /\ attempts[callers[c].awaits].promise = "rejected")
         ~> (callers[c].pc = "threw" \/ ~Running)

\* two callers awaited the same construction and both received its failure,
\* and the store is Uninitialized
C2_Witness ==
  \E c, d \in Callers :
    /\ c # d
    /\ callers[c].pc = "threw" /\ callers[d].pc = "threw"
    /\ callers[c].awaits = callers[d].awaits
    /\ attempts[callers[c].awaits].promise = "rejected"
    /\ agentInstance = NULL /\ initializationPromise = NULL

\* C3 -- no poisoned state: the pending handle never holds a failed promise; a
\* getAgent() call is never handed a promise that has already failed; and a
\* call made in the Uninitialized state (in particular after any number of
\* failures) starts a fresh construction.
C3_RetryAfterFailure ==
  [][/\ initializationPromise' # NULL
          => attempts'[initializationPromise'].promise # "rejected"
     /\ \A c \in Callers :
          CallStep(c) =>
            /\ callers'[c].awaits # NULL
                 => attempts'[callers'[c].awaits].promise # "rejected"
            /\ (agentInstance = NULL /\ initializationPromise = NULL) =>
                 /\ Len(attempts') = Len(attempts) + 1
                 /\ attempts'[Len(attempts')].init = "running"
                 /\ callers'[c].awaits = Len(attempts')
                 /\ initializationPromise' = Len(attempts')]_vars

\* after two failed constructions a third one, started by a later call, is in flight
C3_Witness ==
  \E a, b, n \in DOMAIN attempts :
    /\ a < b /\ b < n
    /\ attempts[a].origin = "getAgent" /\ attempts[a].promise = "rejected"
    /\ attempts[b].origin = "getAgent" /\ attempts[b].promise = "rejected"
    /\ attempts[n].origin = "getAgent" /\ attempts[n].init = "running"
    /\ \E c \in Callers : callers[c].pc = "awaiting" /\ callers[c].awaits = n

\* a construction started by getAgent() has succeeded
Ready == \E a \in DOMAIN attempts : attempts[a].promise = "fulfilled"

\* C4 -- Ready is permanent: once a construction started by getAgent() has
\* succeeded, the cached instance never changes or disappears, the handle stays
\* set, no further construction is started through getAgent(), and every later
\* call is answered with the cached instance.
C4_ReadyIsPermanent ==
  [][Ready =>
       /\ agentInstance # NULL
       /\ agentInstance' = agentInstance
       /\ initializationPromise' = initializationPromise
       /\ initializationPromise # NULL
       /\ \A a \in DOMAIN attempts' :
            attempts'[a].origin = "getAgent" => a \in DOMAIN attempts
       /\ \A c \in Callers :
            CallStep(c) => /\ callers'[c].awaits = NULL
                           /\ callers'[c].value = agentInstance]_vars

\* a call made in the Ready state came back with the cached instance
C4_Witness ==
  \E c \in Callers :
    /\ callers[c].pc = "returned"
    /\ callers[c].awaits = NULL
    /\ callers[c].value = agentInstance
    /\ agentInstance # NULL

\* C5 -- the agent is constructed successfully at most once in the process and
\* the wallet-state file is written at most once.
C5_AtMostOneConstruction ==
  /\ Cardinality({a \in DOMAIN attempts : attempts[a].init = "resolved"}) <= 1
  /\ walletWrites <= 1

\* the registrations appended to the ledger since the model started
Registered == Cardinality({id \in DOMAIN ledger : ledger[id] > RecentTs})

\* a name is registered while a fetch session waits for a page: the ledger
\* gets a record with the next block number and the block time of now
register ==
  /\ session.pc = "awaiting"
  /\ Registered < MaxRegistered
  /\ ledger' = Append(ledger, now \div 1000)
  /\ UNCHANGED <<agentVars, now, session, requests, tool>>

FetchLiveNext ==
  \/ FetchNext
  \/ register

FetchLiveSpec == FetchInit /\ [][FetchLiveNext]_vars

\* a data API that answers with exactly 100 records whatever the ledger holds:
\* the records after the skipped ones of an endless list
apiRespondFull ==
  /\ session.pc = "awaiting"
  /\ LastRequest.status = "pending"
  /\ Len(requests) < MaxRequests
  /\ requests' = [requests EXCEPT ![Len(requests)] =
       [@ EXCEPT !.status = "answered",
                 !.page = IF session.mode = "collect"
                            THEN [i \in 1..First |->
                                   [id |-> LastRequest.skip + i,
                                    blockNumber |-> LastRequest.skip + i,
                                    blockTimestamp |-> RecentTs]]
                            ELSE [i \in 1..First |-> [id |-> LastRequest.skip + i]]]]
  /\ UNCHANGED <<agentVars, now, ledger, session, tool>>

\* ledgers around the page size: no recent record, one short page, exactly one
\* page, one page and a record, exactly two pages, and the largest ledger
PageLedgers ==
  {InitialLedger(n) : n \in {0, FullPage - 1, FullPage, FullPage + 1, 2 * FullPage, MaxLedger}}

FetchFairInit ==
  /\ FetchInit
  /\ ledger \in PageLedgers

FetchFairNext ==
  \/ \E input \in ToolInputs : fetchsubgraphTool(input)
  \/ \E input \in ToolInputs : fetchRegistrationCountTool(input)
  \/ apiRespond
  \/ apiRespondFull
  \/ apiFail
  \/ fetchsubgraphResume
  \/ fetchRegistrationCountResume
  \/ toolResume
  \/ tick

\* a continuation whose awaited request has settled is run: the job queue is
\* never starved; nothing is assumed of the data API
FetchFairSpec ==
  /\ FetchFairInit
  /\ [][FetchFairNext]_vars
  /\ WF_vars(fetchsubgraphResume)
  /\ WF_vars(fetchRegistrationCountResume)

(* --------------------- claims about the chat handler ------------------- *)
\* one content event for every chunk of the sequence, whatever its content
EventPerChunk(chunks) ==
  [i \in 1..Len(chunks) |-> ContentEvent(chunks[i].content)]

\* one content event for every chunk whose extracted content is not empty
RECURSIVE EventPerContent(_)
EventPerContent(chunks) ==
  IF chunks = <<>> THEN <<>>
  ELSE LET rest == EventPerContent(SubSeq(chunks, 1, Len(chunks) - 1))
           last == chunks[Len(chunks)]
       IN  IF last.key \in {"agent", "tools"} /\ last.content # ""
             THEN Append(rest, ContentEvent(last.content)) ELSE rest

C14_NonPostIs405 ==
  [][\A c \in Callers :
       /\ (chats[c].pc = "idle" /\ chats'[c].pc # "idle" /\ chats'[c].method # "POST")
            => /\ chats'[c].status = 405
               /\ chats'[c].pc = "done"
               /\ storeVars' = storeVars
       /\ (chats'[c].method \notin {"POST", "none"})
            => /\ chats'[c].status = 405
               /\ ~chats'[c].stream
               /\ chats'[c].events = <<>>
               /\ callers'[c] = IdleCaller]_vars

\* a GET was answered 405 while another request's construction was in flight
C14_Witness ==
  \E c, d \in Callers :
    /\ chats[c].method = "GET" /\ chats[c].status = 405
    /\ initializationPromise # NULL /\ agentInstance = NULL
    /\ callers[d].pc = "awaiting" /\ callers[c] = IdleCaller

\* C15 -- a POST request ends with status 500 and no stream (unreadable body,
\* or getAgent() failing) or with the event-stream response, never both; its
\* status never changes once given; a failure after the response was returned
\* shows only as the error event of its stream; and when getAgent()'s failure
\* is answered 500 the store is Uninitialized, so the next request starts a
\* construction.
C15_Either500OrStream ==
  [][\A c \in Callers :
       /\ chats'[c].status \in {0, 200, 405, 500}
       /\ chats[c].status # 0 => chats'[c].status = chats[c].status
       /\ (chats'[c].method = "POST" /\ chats'[c].pc = "done")
            => chats'[c].status \in {200, 500}
       /\ chats'[c].status = 500
            => /\ ~chats'[c].stream
               /\ chats'[c].events = <<>>
               /\ chats'[c].closed = 0
               /\ chats'[c].pc = "done"
       /\ chats'[c].stream <=> chats'[c].status = 200
       /\ chats'[c].raised
            => /\ chats'[c].status = 200
               /\ chats'[c].events[Len(chats'[c].events)] = ErrorEvent
       /\ (chats[c].pc = "agent" /\ chats'[c].status = 500)
            => /\ agentInstance' = NULL
               /\ initializationPromise' = NULL]_vars

\* a request was answered 500 for a failed construction and a later request,
\* after a new construction, got its stream
C15_Witness ==
  \E c, d \in Callers :
    /\ chats[c].status = 500 /\ callers[c].pc = "threw"
    /\ chats[d].status = 200 /\ callers[d].pc = "returned"
    /\ callers[d].awaits > callers[c].awaits

(* ----------------------- claims about the fetcher ---------------------- *)
Failed == \E i \in DOMAIN requests : requests[i].status = "failed"

\* the pages received so far, one after the other, in the order of the requests
RECURSIVE PagesUpTo(_)
PagesUpTo(n) ==
  IF n = 0 THEN <<>> ELSE PagesUpTo(n - 1) \o requests[n].page

\* the records of the ledger a session with this lower bound is to return
Matching(targetTimestamp) ==
  SelectSeq(DescIds, LAMBDA id : ledger[id] >= targetTimestamp)

\* C6 -- within one session the i-th page request carries skip = 100 * (i - 1);
\* a request is issued only when every earlier one has been answered, so at most
\* the last one is in flight; and every request but the last was answered with a
\* full page of 100, so nothing is requested after a page shorter than 100.
C6_SkipSequence ==
  /\ \A i \in DOMAIN requests : requests[i].skip = 100 * (i - 1)
  /\ \A i \in DOMAIN requests :
       i < Len(requests) =>
         requests[i].status = "answered" /\ Len(requests[i].page) = 100
  /\ session.pc = "returned" => LastRequest.status # "pending"

\* a session asked for skip 0, 100 and 200 and ended on the short third page
C6_Witness ==
  /\ session.pc = "returned"
  /\ Len(requests) = 3
  /\ requests[3].skip = 200
  /\ requests[3].status = "answered"
  /\ Len(requests[3].page) \in 1..99

\* C7 -- a session in which no request failed ends after the first short page:
\* with T records in all pages together it has issued T \div 100 + 1 requests,
\* all pages but the last hold 100 records, and it returns the concatenation of
\* the pages (full-record mode) or T (count mode); against an unchanging ledger
\* that is every matching record, newest first.
C7_ResultIsAllPages ==
  (session.pc = "returned" /\ ~Failed) =>
    LET all == PagesUpTo(Len(requests))
    IN  /\ Len(requests) = (Len(all) \div 100) + 1
        /\ \A i \in DOMAIN requests :
             Len(requests[i].page) = IF i < Len(requests) THEN 100 ELSE Len(all) % 100
        /\ Len(all) = Len(Matching(session.targetTimestamp))
        /\ session.mode = "collect" =>
             /\ session.ret = [kind |-> "array", list |-> all, num |-> 0]
             /\ \A k \in DOMAIN all :
                  all[k].id = Matching(session.targetTimestamp)[k]
        /\ session.mode = "count" =>
             session.ret = [kind |-> "number", list |-> <<>>, num |-> Len(all)]

\* pages of 100, 100 and 37 records were fetched in count mode: 3 requests, 237
C7_Witness ==
  /\ session.pc = "returned"
  /\ session.mode = "count"
  /\ ~Failed
  /\ Len(requests) = 3
  /\ Len(requests[3].page) = 37
  /\ session.ret.num = 237

\* C8 -- in full-record mode a session in which a page request failed never
\* returns normally, neither to its caller nor through the fetchsubgraph tool.
C8_CollectFailureIsRaised ==
  (session.mode = "collect" /\ Failed) =>
    /\ session.pc # "returned"
    /\ tool.pc # "returned"

\* C9 -- in count mode a session never raises; when a request failed it returns
\* 0, whatever it had counted, and otherwise it returns the number of matching
\* records: the result is the full total or 0, never a part of it.
C9_CountIsTotalOrZero ==
  session.mode = "count" =>
    /\ session.pc # "threw"
    /\ tool.pc # "threw"
    /\ session.pc = "returned" =>
         /\ session.ret.kind = "number"
         /\ session.ret.num =
              IF Failed THEN 0 ELSE Len(Matching(session.targetTimestamp))
    /\ tool.pc = "returned" =>
         tool.out = [type |-> "string", json |-> session.ret]

\* a count session had counted 200 records when its third request failed, and returned 0
C9_Witness ==
  /\ session.mode = "count"
  /\ session.pc = "returned"
  /\ Len(requests) = 3
  /\ requests[3].status = "failed"
  /\ session.count = 200
  /\ session.ret.num = 0
  /\ tool.pc = "returned"

\* C10 -- no retry: no two requests of a session carry the same skip, a failed
\* request is the last one of its session, no request is issued once one has
\* failed, and the step that takes the failure ends the session.
C10_NoRetry ==
  [][/\ \A i, j \in DOMAIN requests' :
          i # j => requests'[i].skip # requests'[j].skip
     /\ \A i \in DOMAIN requests' :
          requests'[i].status = "failed" => i = Len(requests')
     /\ Failed =>
          /\ requests' = requests
          /\ session' # session => session'.pc = "returned"]_vars

\* the second request of a session failed and the session ended there
C10_Witness ==
  /\ session.pc = "returned"
  /\ Len(requests) = 2
  /\ requests[2].status = "failed"

\* C11 -- hours <= 0 is a caller error: a tool call whose input parses to a
\* number <= 0 ends in an error and issues no page request.
C11_NonPositiveHoursRejected ==
  (tool.pc # "idle" /\ ~isNaN(parseInt(tool.input)) /\ parseInt(tool.input).val <= 0)
    => /\ requests = <<>>
       /\ session.pc = "idle"
       /\ tool.pc = "threw"

\* the ids of the records of every page answered in the session
PageIds ==
  UNION {{requests[i].page[k].id : k \in DOMAIN requests[i].page} : i \in DOMAIN requests}

\* C16 -- the records accumulated in one fetch session contain no duplicate id
\* when every page request is answered correctly against the ledger as it is
\* at that moment, registrations appended between two page requests included;
\* the count returned is the number of distinct records seen.
C16_NoDuplicateIds ==
  session.pc \in {"awaiting", "returned"} /\ requests # <<>>
    => /\ Cardinality({session.results[i].id : i \in DOMAIN session.results})
            = Len(session.results)
       /\ (session.pc = "returned" /\ session.ret.kind = "number"
             /\ LastRequest.status = "answered")
            => session.ret.num = Cardinality(PageIds)

\* the request in flight has failed or was answered with a short page
LastPageEnds ==
  \/ LastRequest.status = "failed"
  \/ LastRequest.status = "answered" /\ Len(LastRequest.page) < FullPage

\* C17 -- a fetch session ends if and only if a page request fails or is
\* answered with fewer than 100 records: while its request is unanswered the
\* session does not move (no timeout); a full page makes it issue the next
\* request with skip + 100 and not return; a failed or short page makes it
\* return in its next step, and that step is taken.
C17_EndsIffFailedOrShort ==
  /\ [][(session.pc = "awaiting" /\ session' # session)
          => /\ LastRequest.status # "pending"
             /\ IF LastPageEnds
                  THEN /\ session'.pc = "returned"
                       /\ requests' = requests
                  ELSE /\ session'.pc = "awaiting"
                       /\ session'.skip = session.skip + 100
                       /\ requests' = Append(requests,
                            Request(session.targetTimestamp, session.skip + 100))]_vars
  /\ [][(session.pc = "awaiting" /\ LastRequest.status = "pending")
          => session' = session]_vars
  /\ (session.pc = "awaiting" /\ requests # <<>> /\ LastPageEnds) ~> (session.pc = "returned")

\* three full pages were answered, the fourth request with skip 300 is in
\* flight and the session has not returned
C17_Witness ==
  /\ session.pc = "awaiting"
  /\ Len(requests) = 4
  /\ \A i \in 1..3 : requests[i].status = "answered" /\ Len(requests[i].page) = 100
  /\ requests[4].status = "pending" /\ requests[4].skip = 300

\* fetchsubgraph()'s loop run over a sequence of API responses, from its k-th
\* turn: the requests it issues and what it returns (part_000 52-83)
RECURSIVE fetchsubgraphLoop(_, _, _, _, _)
fetchsubgraphLoop(targetTimestamp, responses, k, skip, results) ==
  LET issued == <<[targetTimestamp |-> targetTimestamp, skip |-> skip]>>
  IN  IF k > Len(responses) \/ responses[k].status = "pending"
        THEN [issued |-> issued, ret |-> NoReturn]
      ELSE IF responses[k].status = "failed"
        THEN [issued |-> issued, ret |-> [kind |-> "undefined", list |-> <<>>, num |-> 0]]
      ELSE LET nameRegistereds == responses[k].page
               all == results \o nameRegistereds
           IN  IF Len(nameRegistereds) < FullPage
                 THEN [issued |-> issued, ret |-> [kind |-> "array", list |-> all, num |-> 0]]
                 ELSE LET rest == fetchsubgraphLoop(targetTimestamp, responses, k + 1,
                                                    skip + SkipStep, all)
                      IN  [issued |-> issued \o rest.issued, ret |-> rest.ret]

\* fetchRegistrationCount()'s loop run over a sequence of API responses, from
\* its k-th turn (part_000 94-121)
RECURSIVE fetchRegistrationCountLoop(_, _, _, _, _)
fetchRegistrationCountLoop(targetTimestamp, responses, k, skip, count) ==
  LET issued == <<[targetTimestamp |-> targetTimestamp, skip |-> skip]>>
  IN  IF k > Len(responses) \/ responses[k].status = "pending"
        THEN [issued |-> issued, ret |-> NoReturn]
      ELSE IF responses[k].status = "failed"
        THEN [issued |-> issued, ret |-> [kind |-> "number", list |-> <<>>, num |-> 0]]
      ELSE LET nameRegistereds == responses[k].page
               total == count + Len(nameRegistereds)
           IN  IF Len(nameRegistereds) < FullPage
                 THEN [issued |-> issued, ret |-> [kind |-> "number", list |-> <<>>, num |-> total]]
                 ELSE LET rest == fetchRegistrationCountLoop(targetTimestamp, responses, k + 1,
                                                             skip + SkipStep, total)
                      IN  [issued |-> issued \o rest.issued, ret |-> rest.ret]

\* the requests of the session as issued: targetTimestamp and skip of each
Issued ==
  [i \in DOMAIN requests |->
    [targetTimestamp |-> requests[i].targetTimestamp, skip |-> requests[i].skip]]

\* C18 -- against the responses the session has taken, fetchsubgraph and
\* fetchRegistrationCount issue the same sequence of requests (same
\* targetTimestamp, same skip values, same number), which is the sequence the
\* session issued in either mode; and when no request failed the count that
\* fetchRegistrationCount returns is the length of the list fetchsubgraph returns.
C18_CountModeIsSamePagination ==
  (requests # <<>> /\ (session.pc = "returned" \/ LastRequest.status = "pending")) =>
    LET collect == fetchsubgraphLoop(session.targetTimestamp, requests, 1, 0, <<>>)
        count == fetchRegistrationCountLoop(session.targetTimestamp, requests, 1, 0, 0)
    IN  /\ collect.issued = count.issued
        /\ Issued = collect.issued
        /\ session.mode = "collect" =>
             /\ session.ret.kind = collect.ret.kind
             /\ session.ret.list = collect.ret.list
        /\ session.mode = "count" =>
             /\ session.ret.kind = count.ret.kind
             /\ session.ret.num = count.ret.num
        /\ (session.pc = "returned" /\ LastRequest.status = "answered") =>
             /\ collect.ret.kind = "array" /\ count.ret.kind = "number"
             /\ count.ret.num = Len(collect.ret.list)
             /\ session.mode = "count" => session.ret.num = Len(collect.ret.list)
             /\ session.mode = "collect" => Len(session.ret.list) = count.ret.num

\* a count session over three pages returned the size of the ledger, more than
\* 200, which is the length of the list the full-record loop collects from the
\* same three responses
C18_Witness ==
  /\ session.mode = "count" /\ session.pc = "returned"
  /\ Len(requests) = 3 /\ LastRequest.status = "answered"
  /\ session.ret.num = Len(ledger) /\ session.ret.num > 200
  /\ Len(fetchsubgraphLoop(session.targetTimestamp, requests, 1, 0, <<>>).ret.list)
       = session.ret.num

\* n is the floor of ms / 1000
IsFloorOfSeconds(n, ms) == n * 1000 <= ms /\ ms < (n + 1) * 1000

\* C19 -- targetTimestamp is computed once, when the call starts, as
\* floor((now_ms - hours*3600*1000) / 1000) of the clock at that moment; it
\* does not change while the session runs, whatever the clock does; every page
\* request of the session carries it, and from one request to the next only
\* skip changes.
C19_TargetTimestampFixedAtCallStart ==
  [][/\ (session.pc = "idle" /\ session'.pc # "idle")
          => /\ IsFloorOfSeconds(session'.targetTimestamp,
                                 now - session'.hours * 3600 * 1000)
             /\ requests' = <<Request(session'.targetTimestamp, 0)>>
     /\ session.pc # "idle" => session'.targetTimestamp = session.targetTimestamp
     /\ \A i \in DOMAIN requests' :
          requests'[i].targetTimestamp = session'.targetTimestamp
     /\ \A i \in DOMAIN requests' :
          i > 1 => requests'[i].skip # requests'[i - 1].skip]_vars

\* the clock advanced after the call started, far enough for the formula to
\* give another value now, and the second request carries the first one's
\* targetTimestamp
C19_Witness ==
  /\ Len(requests) >= 2
  /\ now > StartMs
  /\ ~IsFloorOfSeconds(session.targetTimestamp, now - session.hours * 3600 * 1000)
  /\ IsFloorOfSeconds(session.targetTimestamp, StartMs - session.hours * 3600 * 1000)
  /\ requests[2].targetTimestamp = requests[1].targetTimestamp

====
